---- MODULE Spec2Model ----
(***************************************************************************)
(* pc.Application (src/src/framework/framework_application.js): the        *)
(* start-up pipeline (configure, preload, loadFromToc), start(), the frame *)
(* loop and the canvas policy as a state machine.  The host event loop is  *)
(* single threaded: a call runs to completion, and loader callbacks and    *)
(* animation frames are delivered only between calls.                      *)
(***************************************************************************)
EXTENDS Integers, Sequences, FiniteSets, TLC

\* Bounds of the model.
MaxAssets == 2
MaxScripts == 2
MaxBatches == 2
MaxDup == 1
MaxLibraries == 2
MaxManifest == 1
MaxSize == 2
MaxNodes == 2
MaxCameras == 2
MaxInstant == 3
MaxScale == 4
MaxTicks == 2
MaxStarts == 1
MaxToc == 2
MaxVisibility == 3
MaxFullscreen == 2
MaxResize == 3
MaxRestarts == 1
MaxSettings == 2
MaxScenes == 3
MaxApplications == 3

VARIABLES
    assets,      \* this.assets, the registry: a sequence of [preload, loaded]
    _scripts,    \* this._scripts, the script urls to preload
    preloading,  \* this.systems.script.preloading
    batches,     \* the closures of the preload() calls made so far, in call order
    loading,     \* the assets the loader is fetching (no outcome reported yet)
    pc,          \* position of the running preload() call, "idle" between calls
    i,           \* the loop variable of the running preload() call (1-based)
    dups,        \* number of duplicate settlements the loader has delivered
    events,      \* the names of the events the application has fired
    _librariesLoaded,   \* this._librariesLoaded
    http,        \* the configure() request: "none", "pending" or "done"
    response,    \* the configuration payload of the configure() call
    libs,        \* the locals of _parseApplicationProperties
    configured,  \* the error argument of every call of configure()'s callback
    parsed,      \* how many times the script list and the manifest were parsed
    libraryLoaded,      \* calls of systems.rigidbody.onLibraryLoaded()
    _fillMode,   \* this._fillMode
    _resolutionMode,    \* this._resolutionMode
    _width,      \* this._width
    _height,     \* this._height
    canvas,      \* graphicsDevice.canvas: backing width, height and style size
    window,      \* innerWidth, innerHeight, devicePixelRatio
    isCocoonJS,  \* navigator.isCocoonJS
    clock,       \* the host's clock as tick() last read it, in ms (0: never read)
    _time,       \* this._time: the clock reading of the last tick, in ms
    timeScale,   \* this.timeScale
    root,        \* the number of nodes of the hierarchy under this.root
    sceneRoot,   \* the nodes of this.scene.root not yet under this.root (0: no scene)
    cameras,     \* the length of this.systems.camera.cameras
    devices,     \* which of controller, mouse, keyboard, gamepads are set
    frames,      \* the animation frames requested and not yet delivered
    started,     \* calls of start() made so far
    ticks,       \* calls of tick() made so far
    errors,      \* handlers an exception has propagated out of so far
    calls,       \* the call log of the latest start() or animation frame
    thrown,      \* the call that threw in that handler, if any: <<>> or <<call>>
    content,     \* whether this.content is set
    toc,         \* loadFromToc(): listeners waiting, loads started, calls thrown
    hidden,      \* whether the host shows the page as hidden
    _hiddenAttr, \* this._hiddenAttr, "none" when the host has no such attribute
    visibility,  \* visibility events: changes made, dispatched and not yet handled
    audio,       \* this._audioManager: suspended, calls of suspend and of resume
    fsCalls,     \* the enableFullscreen / disableFullscreen calls made, in order
    fsListeners, \* the listeners on the document: <<call, "s" or "e">>
    fsRequests,  \* the calls whose request the host has not answered, in order
    resized,     \* the canvas calls made: their count, the last one, and the size
                 \* resizeCanvas returned or the size passed to the two others
    sky,         \* this.scene's skybox, the skybox named by each updateSceneSettings
                 \* call, and the callbacks that wait for an asset
    sceneLoads,  \* the loadScene() calls made, in order
    _currentApplication, \* Application._currentApplication
    _applications,       \* Application._applications, 0 where no application is stored
    constructed  \* the applications constructed, in order: the id of the canvas of each
                 \* and, for the other applications, the ticks it has run

preloadVars == <<assets, _scripts, preloading, batches, loading, pc, i, dups, events>>

configVars == <<_librariesLoaded, http, response, libs, configured, parsed,
                libraryLoaded>>

viewVars == <<_fillMode, _resolutionMode, _width, _height, canvas, window,
              isCocoonJS>>

frameVars == <<clock, _time, timeScale, root, sceneRoot, cameras, devices, frames, started,
               ticks, errors, calls, thrown, _currentApplication>>

tocVars == <<content, toc>>

hostVars == <<hidden, _hiddenAttr, visibility, audio, fsCalls, fsListeners, fsRequests,
              resized, sky, sceneLoads, _applications, constructed>>

vars == <<preloadVars, configVars, viewVars, frameVars, tocVars, hostVars>>

\* What the steps of preload() and of its loader callbacks leave alone.
notPreload == <<configVars, viewVars, frameVars, tocVars, hostVars>>

\* The value of a parameter the caller did not pass, and null.  An error value
\* names the item that failed: <<"asset", a>> or <<"script", k>>.
Undefined == <<"undefined", 0>>

Null == <<"null", 0>>

----------------------------------------------------------------------------
\* Pure helpers.

RECURSIVE gcd(_, _)
gcd(a, b) ==
    IF b = 0 THEN a ELSE gcd(b, a % b)

NaN == <<"NaN", 0, 0>>

Infinity == <<"Infinity", 0, 0>>

Num(n) == <<"num", n, 1>>

\* The quotient n/d of two non-negative integers as the division of the
\* language gives it: a fraction in lowest terms, Infinity for n/0, NaN for 0/0.
Quotient(n, d) ==
    IF d = 0 THEN (IF n = 0 THEN NaN ELSE Infinity)
    ELSE <<"num", n \div gcd(n, d), d \div gcd(n, d)>>

\* x <= y on quotients.
Leq(x, y) ==
    /\ x[1] = "num"
    /\ y[1] = "num"
    /\ x[2] * y[3] <= y[2] * x[3]

One == Num(1)

Zero == Num(0)

----------------------------------------------------------------------------
\* preload(): the Progress mini-object and the closure of one call.

Progress(length) ==
    [length |-> length, count |-> 0]

inc(p) ==
    [p EXCEPT !.count = @ + 1]

Progress_done(p) ==
    p.count = p.length

\* this.assets.list({preload: true}): the ids of the assets flagged preload.
list_preload ==
    SelectSeq([k \in 1..Len(assets) |-> k], LAMBDA k: assets[k].preload)

\* The locals of one preload() call.  onLoad / onError are the assets on which
\* this call still has a once('load') / once('error') listener; requests are the
\* script loads whose callback has not been called, answered those whose
\* callback has.  issued, resident, settled, failed, fired and called record what
\* happened: items visited by the issuing loops, assets the loop found already
\* loaded, settlements delivered to this call (those included), items that
\* failed, the "preload:progress" values fired, and the error argument of every
\* invocation of the completion callback.
Closure_assetTotal(list, nscripts) ==
    [assets |-> list,
     _assets |-> Progress(Len(list)),
     _scripts |-> Progress(nscripts),
     _done |-> FALSE,
     total |-> Len(list),
     onLoad |-> {}, onError |-> {},
     requests |-> {}, answered |-> {},
     issued |-> 0, resident |-> 0, settled |-> 0, failed |-> {},
     fired |-> <<>>, called |-> <<>>]

Closure(list, nscripts) ==
    [assets |-> list,
     _assets |-> Progress(Len(list)),
     _scripts |-> Progress(nscripts),
     _done |-> FALSE,
     total |-> Len(list) + nscripts,
     onLoad |-> {}, onError |-> {},
     requests |-> {}, answered |-> {},
     issued |-> 0, resident |-> 0, settled |-> 0, failed |-> {},
     fired |-> <<>>, called |-> <<>>]

\* The part of the state the callbacks of preload() write.
World ==
    [batches |-> batches, preloading |-> preloading, events |-> events]

count(c) ==
    c._assets.count + c._scripts.count

\* done() without the _done latch.
done_unlatched(w, b) ==
    LET c == w.batches[b]
    IN  IF Progress_done(c._assets) /\ Progress_done(c._scripts)
        THEN [batches |-> [w.batches EXCEPT ![b]._done = TRUE,
                                            ![b].called = Append(@, Undefined)],
              preloading |-> FALSE,
              events |-> w.events]
        ELSE w

\* done() that does not wait for the scripts.
done_assetsOnly(w, b) ==
    LET c == w.batches[b]
    IN  IF ~c._done /\ Progress_done(c._assets)
        THEN [batches |-> [w.batches EXCEPT ![b]._done = TRUE,
                                            ![b].called = Append(@, Undefined)],
              preloading |-> FALSE,
              events |-> w.events]
        ELSE w

\* done() that hands the callback an item that failed.
done_withError(w, b) ==
    LET c == w.batches[b]
        err == IF c.failed = {} THEN Null ELSE CHOOSE f \in c.failed : TRUE
    IN  IF ~c._done /\ Progress_done(c._assets) /\ Progress_done(c._scripts)
        THEN [batches |-> [w.batches EXCEPT ![b]._done = TRUE,
                                            ![b].called = Append(@, err)],
              preloading |-> FALSE,
              events |-> w.events]
        ELSE w

done(w, b) ==
    LET c == w.batches[b]
    IN  IF ~c._done /\ Progress_done(c._assets) /\ Progress_done(c._scripts)
        THEN [batches |-> [w.batches EXCEPT ![b]._done = TRUE,
                                            ![b].called = Append(@, Undefined)],
              preloading |-> FALSE,
              events |-> w.events]
        ELSE w

\* self.fire("preload:progress", count()/total)
fire_progress(w, b) ==
    LET c == w.batches[b]
    IN  [w EXCEPT !.batches[b].fired = Append(@, Quotient(count(c), c.total)),
                  !.events = @ \cup {"preload:progress"}]

\* The once('load') listener.
onAssetLoad(w, b) ==
    LET w1 == [w EXCEPT !.batches[b]._assets = inc(@)]
        w2 == fire_progress(w1, b)
    IN  IF Progress_done(w2.batches[b]._assets) THEN done(w2, b) ELSE w2

\* An error listener that does not count the asset.
onAssetError_uncounted(w, b, err) ==
    w

\* The once('error') listener.
onAssetError(w, b, err) ==
    LET w1 == [w EXCEPT !.batches[b]._assets = inc(@)]
        w2 == fire_progress(w1, b)
    IN  IF Progress_done(w2.batches[b]._assets) THEN done(w2, b) ELSE w2

\* The branch of the asset loop for an asset that is already loaded.
onAssetResident(w, b) ==
    LET w1 == [w EXCEPT !.batches[b]._assets = inc(@)]
        w2 == fire_progress(w1, b)
    IN  IF Progress_done(w2.batches[b]._assets) THEN done(w2, b) ELSE w2

\* A script callback that reports a failed script to the caller at once.
onScript_escalate(w, b, err) ==
    LET w1 == [w EXCEPT !.batches[b]._scripts = inc(@)]
    IN  IF err # Null
        THEN [w1 EXCEPT !.batches[b].called = Append(@, err)]
        ELSE IF Progress_done(w1.batches[b]._scripts) THEN done(w1, b) ELSE w1

\* The callback of this.loader.load(url, "script", ...).
onScript(w, b, err) ==
    LET w1 == [w EXCEPT !.batches[b]._scripts = inc(@)]
    IN  IF Progress_done(w1.batches[b]._scripts) THEN done(w1, b) ELSE w1

\* Asset a fires 'load' or 'error': every call that still has the once-listener
\* of that kind on a runs it, in registration order, and loses it.
deliver(w, a, kind, b) ==
    LET c == w.batches[b]
        has == IF kind = "load" THEN a \in c.onLoad ELSE a \in c.onError
        w1 == [w EXCEPT !.batches[b].onLoad = IF kind = "load" THEN @ \ {a} ELSE @,
                        !.batches[b].onError = IF kind = "error" THEN @ \ {a} ELSE @,
                        !.batches[b].settled = @ + 1,
                        !.batches[b].failed =
                            IF kind = "error" THEN @ \cup {<<"asset", a>>} ELSE @]
    IN  IF ~has THEN w
        ELSE IF kind = "load" THEN onAssetLoad(w1, b)
        ELSE onAssetError(w1, b, <<"asset", a>>)

RECURSIVE emitFrom(_, _, _, _)
emitFrom(w, a, kind, b) ==
    IF b > Len(w.batches) THEN w
    ELSE emitFrom(deliver(w, a, kind, b), a, kind, b + 1)

emit(w, a, kind) ==
    emitFrom(w, a, kind, 1)

\* The loader calls the callback of script request k of call b.
answer(w, b, k, failed) ==
    LET w1 == [w EXCEPT !.batches[b].requests = @ \ {k},
                        !.batches[b].answered = @ \cup {k},
                        !.batches[b].settled = @ + 1,
                        !.batches[b].failed =
                            IF failed THEN @ \cup {<<"script", k>>} ELSE @]
    IN  onScript(w1, b, IF failed THEN <<"script", k>> ELSE Null)

SetWorld(w) ==
    /\ batches' = w.batches
    /\ preloading' = w.preloading
    /\ events' = w.events

----------------------------------------------------------------------------
\* preload(callback), one step per loop iteration.

\* Lines 147-191: the locals are set up.
preloadEnter ==
    /\ pc = "idle"
    /\ preloading' = TRUE
    /\ batches' = Append(batches, Closure(list_preload, Len(_scripts)))
    /\ pc' = "assets"
    /\ i' = 1
    /\ UNCHANGED <<assets, _scripts, loading, dups, events>>
    /\ UNCHANGED notPreload

\* The first preload() call of the application.
preload ==
    /\ Len(batches) = 0
    /\ preloadEnter

\* A further preload() call.
preloadAgain ==
    /\ Len(batches) > 0
    /\ Len(batches) < MaxBatches
    /\ preloadEnter

\* if (_assets.length) ... else done()
preloadNoAssets ==
    /\ pc = "assets"
    /\ batches[Len(batches)]._assets.length = 0
    /\ SetWorld(done(World, Len(batches)))
    /\ pc' = "scripts"
    /\ i' = 1
    /\ UNCHANGED <<assets, _scripts, loading, dups>>
    /\ UNCHANGED notPreload

\* One iteration of the asset loop.  this.assets.load() may report the outcome
\* before it returns (sync = "load" or "error") or later (sync = "none").
preloadAsset ==
    LET b == Len(batches)
        c == batches[b]
        a == c.assets[i]
        visited == [World EXCEPT !.batches[b].issued = @ + 1]
        listening == [visited EXCEPT !.batches[b].onLoad = @ \cup {a},
                                     !.batches[b].onError = @ \cup {a}]
    IN  /\ pc = "assets"
        /\ c._assets.length > 0
        /\ i <= c._assets.length
        /\ IF ~assets[a].loaded
           THEN \E sync \in {"none", "load", "error"} :
                  /\ SetWorld(IF sync = "none" THEN listening
                              ELSE emit(listening, a, sync))
                  /\ loading' = IF sync = "none" THEN loading \cup {a}
                                ELSE loading \ {a}
                  /\ assets' = IF sync = "load"
                               THEN [assets EXCEPT ![a].loaded = TRUE]
                               ELSE assets
           ELSE /\ SetWorld(onAssetResident(
                       [visited EXCEPT !.batches[b].settled = @ + 1,
                                       !.batches[b].resident = @ + 1], b))
                /\ UNCHANGED <<assets, loading>>
        /\ IF i < c._assets.length
           THEN i' = i + 1 /\ pc' = "assets"
           ELSE i' = 1 /\ pc' = "scripts"
        /\ UNCHANGED <<_scripts, dups>>
        /\ UNCHANGED notPreload

\* if (_scripts.length) ... else done()
preloadNoScripts ==
    /\ pc = "scripts"
    /\ batches[Len(batches)]._scripts.length = 0
    /\ SetWorld(done(World, Len(batches)))
    /\ pc' = "idle"
    /\ i' = 1
    /\ UNCHANGED <<assets, _scripts, loading, dups>>
    /\ UNCHANGED notPreload

\* One iteration of the script loop.  The loader may call back before load()
\* returns (a cached script) or later.
preloadScript ==
    LET b == Len(batches)
        c == batches[b]
        visited == [World EXCEPT !.batches[b].issued = @ + 1,
                                 !.batches[b].requests = @ \cup {i}]
    IN  /\ pc = "scripts"
        /\ c._scripts.length > 0
        /\ i <= c._scripts.length
        /\ \E sync \in {"none", "ok", "err"} :
              SetWorld(IF sync = "none" THEN visited
                       ELSE answer(visited, b, i, sync = "err"))
        /\ IF i < c._scripts.length
           THEN i' = i + 1 /\ pc' = "scripts"
           ELSE i' = 1 /\ pc' = "idle"
        /\ UNCHANGED <<assets, _scripts, loading, dups>>
        /\ UNCHANGED notPreload

----------------------------------------------------------------------------
\* The loader reports outcomes, between calls.

assetLoaded ==
    \E a \in loading :
        /\ pc = "idle"
        /\ loading' = loading \ {a}
        /\ assets' = [assets EXCEPT ![a].loaded = TRUE]
        /\ SetWorld(emit(World, a, "load"))
        /\ UNCHANGED <<_scripts, pc, i, dups>>
        /\ UNCHANGED notPreload

assetFailed ==
    \E a \in loading :
        /\ pc = "idle"
        /\ loading' = loading \ {a}
        /\ SetWorld(emit(World, a, "error"))
        /\ UNCHANGED <<assets, _scripts, pc, i, dups>>
        /\ UNCHANGED notPreload

scriptAnswered ==
    \E b \in 1..Len(batches) : \E k \in batches[b].requests : \E failed \in BOOLEAN :
        /\ pc = "idle"
        /\ SetWorld(answer(World, b, k, failed))
        /\ UNCHANGED <<assets, _scripts, loading, pc, i, dups>>
        /\ UNCHANGED notPreload

\* A loader that double-fires: an asset that has reported its outcome fires
\* 'load' or 'error' once more, a script callback is called once more.
assetDuplicate ==
    \E b \in 1..Len(batches) : \E n \in 1..Len(batches[b].assets) :
      \E kind \in {"load", "error"} :
        LET a == batches[b].assets[n]
        IN  /\ pc = "idle"
            /\ dups < MaxDup
            /\ a \notin loading
            /\ a \notin (batches[b].onLoad \cap batches[b].onError)
            /\ dups' = dups + 1
            /\ SetWorld(emit(World, a, kind))
            /\ UNCHANGED <<assets, _scripts, loading, pc, i>>
            /\ UNCHANGED notPreload

scriptDuplicate ==
    \E b \in 1..Len(batches) : \E k \in batches[b].answered : \E failed \in BOOLEAN :
        /\ pc = "idle"
        /\ dups < MaxDup
        /\ dups' = dups + 1
        /\ SetWorld(answer(World, b, k, failed))
        /\ UNCHANGED <<assets, _scripts, loading, pc, i>>
        /\ UNCHANGED notPreload

----------------------------------------------------------------------------
\* The canvas policy.  A size is a number of the language: Num(n), a fraction,
\* NaN, Infinity, or Undefined for an argument that was not passed.

FILLMODE_NONE == "NONE"

FILLMODE_FILL_WINDOW == "FILL_WINDOW"

FILLMODE_KEEP_ASPECT == "KEEP_ASPECT"

RESOLUTION_AUTO == "AUTO"

RESOLUTION_FIXED == "FIXED"

IsNum(x) ==
    x[1] = "num"

\* x > y
Gt(x, y) ==
    IF IsNum(x) /\ IsNum(y) THEN x[2] * y[3] > y[2] * x[3]
    ELSE x = Infinity /\ IsNum(y)

\* n * x for an integer n >= 0
Times(n, x) ==
    IF IsNum(x) THEN Quotient(n * x[2], x[3])
    ELSE IF x = Infinity /\ n > 0 THEN Infinity
    ELSE NaN

\* n / x for an integer n >= 0
DivBy(n, x) ==
    IF IsNum(x) THEN Quotient(n * x[3], x[2])
    ELSE IF x = Infinity THEN Num(0)
    ELSE NaN

\* The integer nearest to a fraction.
Round(x) ==
    (2 * x[2] + x[3]) \div (2 * x[3])

\* The value a canvas dimension takes when it is assigned x: the integer part of
\* a number, 0 for anything else.
ToLength(x) ==
    IF IsNum(x) THEN x[2] \div x[3] ELSE 0

\* graphicsDevice.resizeCanvas(width, height): sets the backing resolution.
device_resizeCanvas(c, width, height) ==
    [c EXCEPT !.width = ToLength(width), !.height = ToLength(height)]

\* canvas.style.width = width + 'px' (dim = "width"), likewise for the height:
\* a text that is no length ("undefinedpx", "NaNpx") leaves the style as it was.
setStyle(c, dim, x) ==
    IF IsNum(x) THEN [c EXCEPT !.style[dim] = x] ELSE c

\* canvas.clientWidth and clientHeight: the displayed size in whole pixels, the
\* backing size while no style size is set.
clientWidth(c) ==
    IF c.style.width = Undefined THEN c.width ELSE Round(c.style.width)

clientHeight(c) ==
    IF c.style.height = Undefined THEN c.height ELSE Round(c.style.height)

\* The part of the state the canvas operations write.
View ==
    [_fillMode |-> _fillMode, _resolutionMode |-> _resolutionMode, canvas |-> canvas]

\* setCanvasResolution without the default of the AUTO mode.
setCanvasResolution_asPassed(v, mode, width, height) ==
    [v EXCEPT !._resolutionMode = mode,
              !.canvas = device_resizeCanvas(@, width, height)]

setCanvasResolution(v, mode, width, height) ==
    LET auto == mode = RESOLUTION_AUTO /\ width = Undefined
        w == IF auto THEN Num(clientWidth(v.canvas)) ELSE width
        h == IF auto THEN Num(clientHeight(v.canvas)) ELSE height
    IN  [v EXCEPT !._resolutionMode = mode,
                  !.canvas = device_resizeCanvas(@, w, h)]

\* resizeCanvas with the comparison of the two aspect ratios turned round.
resizeCanvas_narrower(v, width, height) ==
    LET windowWidth == window.innerWidth
        windowHeight == window.innerHeight
        r == Quotient(v.canvas.width, v.canvas.height)
        winR == Quotient(windowWidth, windowHeight)
        w == IF v._fillMode = FILLMODE_KEEP_ASPECT
             THEN (IF Gt(winR, r) THEN Num(windowWidth) ELSE Times(windowHeight, r))
             ELSE IF v._fillMode = FILLMODE_FILL_WINDOW THEN Num(windowWidth)
             ELSE width
        h == IF v._fillMode = FILLMODE_KEEP_ASPECT
             THEN (IF Gt(winR, r) THEN DivBy(windowWidth, r) ELSE Num(windowHeight))
             ELSE IF v._fillMode = FILLMODE_FILL_WINDOW THEN Num(windowHeight)
             ELSE height
        styled == [v EXCEPT !.canvas = setStyle(setStyle(@, "width", w), "height", h)]
    IN  IF isCocoonJS
        THEN [view |-> [v EXCEPT !.canvas = device_resizeCanvas(@,
                            Num(windowWidth * window.devicePixelRatio),
                            Num(windowHeight * window.devicePixelRatio))],
              width |-> Num(windowWidth), height |-> Num(windowHeight)]
        ELSE [view |-> IF v._resolutionMode = RESOLUTION_AUTO
                       THEN setCanvasResolution(styled, RESOLUTION_AUTO,
                                                Undefined, Undefined)
                       ELSE styled,
              width |-> w, height |-> h]

\* resizeCanvas(width, height): the view afterwards and the size returned.
resizeCanvas(v, width, height) ==
    LET windowWidth == window.innerWidth
        windowHeight == window.innerHeight
        r == Quotient(v.canvas.width, v.canvas.height)
        winR == Quotient(windowWidth, windowHeight)
        w == IF v._fillMode = FILLMODE_KEEP_ASPECT
             THEN (IF Gt(r, winR) THEN Num(windowWidth) ELSE Times(windowHeight, r))
             ELSE IF v._fillMode = FILLMODE_FILL_WINDOW THEN Num(windowWidth)
             ELSE width
        h == IF v._fillMode = FILLMODE_KEEP_ASPECT
             THEN (IF Gt(r, winR) THEN DivBy(windowWidth, r) ELSE Num(windowHeight))
             ELSE IF v._fillMode = FILLMODE_FILL_WINDOW THEN Num(windowHeight)
             ELSE height
        styled == [v EXCEPT !.canvas = setStyle(setStyle(@, "width", w), "height", h)]
    IN  IF isCocoonJS
        THEN [view |-> [v EXCEPT !.canvas = device_resizeCanvas(@,
                            Num(windowWidth * window.devicePixelRatio),
                            Num(windowHeight * window.devicePixelRatio))],
              width |-> Num(windowWidth), height |-> Num(windowHeight)]
        ELSE [view |-> IF v._resolutionMode = RESOLUTION_AUTO
                       THEN setCanvasResolution(styled, RESOLUTION_AUTO,
                                                Undefined, Undefined)
                       ELSE styled,
              width |-> w, height |-> h]

setCanvasFillMode(v, mode, width, height) ==
    resizeCanvas([v EXCEPT !._fillMode = mode], width, height).view

SetView(v) ==
    /\ _fillMode' = v._fillMode
    /\ _resolutionMode' = v._resolutionMode
    /\ canvas' = v.canvas

----------------------------------------------------------------------------
\* configure(url, callback).

\* The part of the state the callbacks of configure() write.
Config ==
    [libs |-> libs, configured |-> configured, parsed |-> parsed,
     libraryLoaded |-> libraryLoaded, _scripts |-> _scripts, assets |-> assets,
     response |-> response]

\* _parseScripts(scripts): an absent list leaves this._scripts as it is.
parseScripts(cw, scripts) ==
    IF scripts.defined THEN [cw EXCEPT !._scripts = scripts.urls] ELSE cw

\* _parseAssets(assets): every entry of the manifest is added to the registry.
parseAssets(cw, manifest) ==
    [cw EXCEPT !.assets = @ \o [k \in 1..Len(manifest) |->
                                   [preload |-> manifest[k], loaded |-> FALSE]]]

\* The callback configure() passes to _parseApplicationProperties.
configureCallback(cw, err) ==
    LET cw1 == parseAssets(parseScripts(cw, cw.response.scripts), cw.response.assets)
    IN  [cw1 EXCEPT !.parsed = @ + 1,
                    !.configured = Append(@, IF err = Null THEN Null ELSE err)]

\* The callback of the load of a library.
onLibrary(cw, err) ==
    LET cw1 == [cw EXCEPT !.libs.count = @ - 1]
    IN  IF err # Null THEN configureCallback(cw1, err)
        ELSE IF cw1.libs.count = 0
        THEN configureCallback([cw1 EXCEPT !.libraryLoaded = @ + 1], Null)
        ELSE cw1

\* The loader calls the callback of the load of library k.
answerLibrary(cw, k, failed) ==
    LET cw1 == [cw EXCEPT !.libs.requests = @ \ {k},
                          !.libs.failed = IF failed THEN @ \cup {k} ELSE @,
                          !.libs.settled = @ + 1]
    IN  onLibrary(cw1, IF failed THEN <<"library", k>> ELSE Null)

\* The loop over props['libraries'] from library k on; sync[k] tells whether the
\* loader calls back before load() returns ("ok", "err") or later ("none").
RECURSIVE loadLibraries(_, _, _)
loadLibraries(cw, k, sync) ==
    IF k > cw.libs.len THEN cw
    ELSE LET cw1 == [cw EXCEPT !.libs.requests = @ \cup {k}]
             cw2 == IF sync[k] = "none" THEN cw1
                    ELSE answerLibrary(cw1, k, sync[k] = "err")
         IN  loadLibraries(cw2, k + 1, sync)

\* _parseApplicationProperties without the else branch of `if (len)`.
parseLibraries_noElse(cw, len, sync) ==
    LET cw1 == [cw EXCEPT !.libs = [len |-> len, count |-> len, requests |-> {},
                                    failed |-> {}, settled |-> 0]]
    IN  IF len # 0 THEN loadLibraries(cw1, 1, sync) ELSE cw1

\* The library part of _parseApplicationProperties.
parseLibraries(cw, len, sync) ==
    LET cw1 == [cw EXCEPT !.libs = [len |-> len, count |-> len, requests |-> {},
                                    failed |-> {}, settled |-> 0]]
    IN  IF len # 0 THEN loadLibraries(cw1, 1, sync) ELSE configureCallback(cw1, Null)

SetConfig(cw) ==
    /\ libs' = cw.libs
    /\ configured' = cw.configured
    /\ parsed' = cw.parsed
    /\ libraryLoaded' = cw.libraryLoaded
    /\ _scripts' = cw._scripts
    /\ assets' = cw.assets
    /\ response' = cw.response

\* The configuration payloads.
Sizes ==
    {Num(n) : n \in 1..MaxSize}

Manifests ==
    UNION {[1..n -> BOOLEAN] : n \in 0..MaxManifest}

\* The payload's script list, which may be absent.
ScriptLists ==
    {[defined |-> FALSE, urls |-> <<>>]}
        \cup {[defined |-> TRUE, urls |-> [k \in 1..n |-> k]] : n \in 0..MaxScripts}

Responses ==
    [application_properties :
        [width : Sizes, height : Sizes,
         resolution_mode : {RESOLUTION_AUTO, RESOLUTION_FIXED},
         fill_mode : {FILLMODE_NONE, FILLMODE_FILL_WINDOW, FILLMODE_KEEP_ASPECT},
         libraries : 0..MaxLibraries],
     assets : Manifests,
     scripts : ScriptLists]

\* What the steps of configure() leave alone.
notConfig == <<preloading, batches, loading, pc, i, dups, events, _librariesLoaded,
               window, isCocoonJS, frameVars, tocVars, hostVars>>

\* configure(url, callback): the request for the configuration is sent.
configure ==
    /\ pc = "idle"
    /\ http = "none"
    /\ http' = "pending"
    /\ UNCHANGED <<response, libs, configured, parsed, libraryLoaded, assets,
                   _scripts, _fillMode, _resolutionMode, _width, _height, canvas>>
    /\ UNCHANGED notConfig

\* The error handler of the request: callback(status).
configureError ==
    /\ pc = "idle"
    /\ http = "pending"
    /\ http' = "done"
    /\ configured' = Append(configured, <<"status", 404>>)
    /\ UNCHANGED <<response, libs, parsed, libraryLoaded, assets,
                   _scripts, _fillMode, _resolutionMode, _width, _height, canvas>>
    /\ UNCHANGED notConfig

\* The success handler of the request, _parseApplicationProperties included,
\* for a payload among R.
configureResponseOf(R) ==
    /\ pc = "idle"
    /\ http = "pending"
    /\ \E resp \in R :
      \E sync \in [1..resp.application_properties.libraries -> {"none", "ok", "err"}] :
        LET props == resp.application_properties
            v1 == setCanvasResolution(View, props.resolution_mode,
                                      props.width, props.height)
            v2 == setCanvasFillMode(v1, props.fill_mode, props.width, props.height)
        IN  /\ http' = "done"
            /\ _width' = props.width
            /\ _height' = props.height
            /\ SetView(v2)
            /\ SetConfig(parseLibraries([Config EXCEPT !.response = resp],
                                         props.libraries, sync))
            /\ UNCHANGED notConfig

configureResponse ==
    configureResponseOf(Responses)

\* The payloads that keep the canvas as it is: 1 by 1, fixed resolution, no
\* fill; at most one library and one script, any manifest.
PlainResponses ==
    {resp \in Responses :
        /\ resp.application_properties.width = Num(1)
        /\ resp.application_properties.height = Num(1)
        /\ resp.application_properties.resolution_mode = RESOLUTION_FIXED
        /\ resp.application_properties.fill_mode = FILLMODE_NONE
        /\ resp.application_properties.libraries <= 1
        /\ Len(resp.scripts.urls) <= 1}

configureResponsePlain ==
    configureResponseOf(PlainResponses)

\* The loader reports the outcome of the load of a library.
libraryAnswered ==
    \E k \in libs.requests : \E failed \in BOOLEAN :
        /\ pc = "idle"
        /\ SetConfig(answerLibrary(Config, k, failed))
        /\ UNCHANGED <<http, _fillMode, _resolutionMode, _width, _height, canvas>>
        /\ UNCHANGED notConfig

----------------------------------------------------------------------------
\* start(), tick(), update(dt) and render().

\* The instants the host's clock may show when a tick reads it, in ms: a few
\* display refreshes apart, and the same after a stall of five seconds.  The
\* clock is read some time after the page was opened, so it never shows 0.
Instants ==
    {40 * k : k \in 1..MaxInstant} \cup {5000 + 40 * k : k \in 1..MaxInstant}

\* Two instants one display refresh apart.
Refreshes ==
    {40, 80}

\* The values the host may assign to timeScale: 0, 1/2, 1, 3/2, 2, ...
TimeScales ==
    {Quotient(n, 2) : n \in 0..MaxScale}

Devices ==
    {"controller", "mouse", "keyboard", "gamepads"}

\* The devices a host sets: none, the two the options usually carry, or all.
DeviceSets ==
    {{}, {"mouse", "keyboard"}, Devices}

\* x * y on quotients.
Mul(x, y) ==
    IF IsNum(x) /\ IsNum(y) THEN Quotient(x[2] * y[2], x[3] * y[3]) ELSE NaN

\* pc.math.clamp(value, min, max).
clamp(value, min, max) ==
    IF Leq(max, value) THEN max
    ELSE IF Leq(value, min) THEN min
    ELSE value

\* The application the model follows, the first one constructed on the page.
This == 1

\* The part of the state start() and tick() write.  fuse is the number of calls
\* into engine or user code the handler makes until one of them throws (0: none
\* throws).
Frame ==
    [clock |-> clock, _time |-> _time, root |-> root, sceneRoot |-> sceneRoot, frames |-> frames,
     started |-> started, ticks |-> ticks, errors |-> errors, calls |-> <<>>,
     thrown |-> <<>>, fuse |-> 0, _currentApplication |-> _currentApplication]

\* A call into engine or user code.  Nothing runs once an exception is on its
\* way out of the handler.
call(f, name, arg) ==
    IF f.thrown # <<>> THEN f
    ELSE [f EXCEPT !.calls = Append(@, <<name, arg>>),
                   !.fuse = IF @ > 0 THEN @ - 1 ELSE 0,
                   !.thrown = IF f.fuse = 1 THEN <<<<name, arg>>>> ELSE <<>>,
                   !.errors = IF f.fuse = 1 THEN @ + 1 ELSE @]

\* window.requestAnimationFrame(callback).
requestAnimationFrame(f) ==
    [f EXCEPT !.calls = Append(@, <<"requestAnimationFrame", Zero>>),
              !.frames = @ + 1]

\* pc.ComponentSystem.initialize(root): every node from node n on, in creation
\* order.
RECURSIVE ComponentSystem_initialize(_, _)
ComponentSystem_initialize(f, n) ==
    IF n > f.root THEN f
    ELSE ComponentSystem_initialize(call(f, "initialize", Num(n)), n + 1)

\* pc.ComponentSystem.postInitialize(root).
RECURSIVE ComponentSystem_postInitialize(_, _)
ComponentSystem_postInitialize(f, n) ==
    IF n > f.root THEN f
    ELSE ComponentSystem_postInitialize(call(f, "postInitialize", Num(n)), n + 1)

\* update(dt) with the devices polled before the component systems.
update_devicesFirst(f, d) ==
    LET f1 == IF "controller" \in devices THEN call(f, "controller", d) ELSE f
        f2 == IF "mouse" \in devices THEN call(f1, "mouse", d) ELSE f1
        f3 == IF "keyboard" \in devices THEN call(f2, "keyboard", d) ELSE f2
        f4 == IF "gamepads" \in devices THEN call(f3, "gamepads", d) ELSE f3
        f5 == call(f4, "fixedUpdate", Quotient(1, 60))
        f6 == call(f5, "update", d)
        f7 == call(f6, "postUpdate", d)
    IN  call(f7, "fire update", d)

\* update(dt).
update(f, d) ==
    LET f1 == call(f, "fixedUpdate", Quotient(1, 60))
        f2 == call(f1, "update", d)
        f3 == call(f2, "postUpdate", d)
        f4 == call(f3, "fire update", d)
        f5 == IF "controller" \in devices THEN call(f4, "controller", d) ELSE f4
        f6 == IF "mouse" \in devices THEN call(f5, "mouse", d) ELSE f5
        f7 == IF "keyboard" \in devices THEN call(f6, "keyboard", d) ELSE f6
    IN  IF "gamepads" \in devices THEN call(f7, "gamepads", d) ELSE f7

\* The loop of render() from camera k on.
RECURSIVE renderCameras(_, _)
renderCameras(f, k) ==
    IF k > cameras THEN f
    ELSE LET f1 == call(f, "frameBegin", Num(k))
             f2 == call(f1, "render", Num(k))
             f3 == call(f2, "frameEnd", Num(k))
         IN  renderCameras(f3, k + 1)

\* render().
render(f) ==
    IF f.thrown # <<>> THEN f
    ELSE renderCameras(call(f, "syncHierarchy", Zero), 1)

\* tick()'s dt without the clamp.
dt_unclamped(f, now) ==
    LET last == IF f._time # 0 THEN f._time ELSE now
    IN  Mul(Quotient(now - last, 1000), timeScale)

\* tick()'s dt, scaled before it is clamped.
dt_scaledFirst(f, now) ==
    LET last == IF f._time # 0 THEN f._time ELSE now
    IN  clamp(Mul(Quotient(now - last, 1000), timeScale), Zero, Quotient(1, 10))

\* The dt tick() computes when the clock shows now, in seconds.
dt(f, now) ==
    LET last == IF f._time # 0 THEN f._time ELSE now
    IN  Mul(clamp(Quotient(now - last, 1000), Zero, Quotient(1, 10)), timeScale)

\* tick() without the request for the next frame.
tick_noRearm(f, now) ==
    IF f.thrown # <<>> THEN f
    ELSE LET f1 == [f EXCEPT !.clock = now, !._time = now, !.ticks = @ + 1,
                             !._currentApplication = This]
         IN  render(update(f1, dt(f, now)))

\* tick() requesting the next frame after render().
tick_rearmLast(f, now) ==
    IF f.thrown # <<>> THEN f
    ELSE LET f1 == [f EXCEPT !.clock = now, !._time = now, !.ticks = @ + 1,
                             !._currentApplication = This]
             f2 == render(update(f1, dt(f, now)))
         IN  IF f2.thrown # <<>> THEN f2 ELSE requestAnimationFrame(f2)

\* tick().
tick(f, now) ==
    IF f.thrown # <<>> THEN f
    ELSE LET f1 == requestAnimationFrame([f EXCEPT !._currentApplication = This])
             f2 == [f1 EXCEPT !.clock = now, !._time = now, !.ticks = @ + 1]
         IN  render(update(f2, dt(f, now)))

\* start() calling tick() before the two initialization passes.
Application_start_tickFirst(f, now) ==
    LET f1 == [f EXCEPT !.started = @ + 1, !.root = @ + f.sceneRoot, !.sceneRoot = 0]
        f2 == tick(f1, now)
        f3 == ComponentSystem_initialize(f2, 1)
    IN  ComponentSystem_postInitialize(f3, 1)

\* start().  The root of the scene, if there is one, becomes part of the
\* hierarchy; adding it again changes nothing.
Application_start(f, now) ==
    LET f1 == [f EXCEPT !.started = @ + 1, !.root = @ + f.sceneRoot, !.sceneRoot = 0]
        f2 == ComponentSystem_initialize(f1, 1)
        f3 == ComponentSystem_postInitialize(f2, 1)
    IN  tick(f3, now)

SetFrame(f) ==
    /\ clock' = f.clock
    /\ _time' = f._time
    /\ root' = f.root
    /\ sceneRoot' = f.sceneRoot
    /\ frames' = f.frames
    /\ started' = f.started
    /\ ticks' = f.ticks
    /\ errors' = f.errors
    /\ calls' = f.calls
    /\ thrown' = f.thrown
    /\ _currentApplication' = f._currentApplication

\* What start() and the animation frames leave alone.
notFrame == <<preloadVars, configVars, viewVars, tocVars, hostVars, timeScale, cameras,
              devices>>

\* The host calls start() when the clock shows one of the instants T.  With
\* throws, any one of the calls the handler makes into engine or user code may
\* throw.
startAt(T, throws) ==
    /\ pc = "idle"
    /\ started < MaxStarts
    /\ \E now \in T :
         \E fuse \in 0..(IF throws THEN Len(Application_start(Frame, now).calls) - 1
                         ELSE 0) :
            SetFrame(Application_start([Frame EXCEPT !.fuse = fuse], now))
    /\ UNCHANGED notFrame

start ==
    startAt(Refreshes, TRUE)

\* start() in a host where no call throws.
startClock ==
    startAt(Instants, FALSE)

\* The host calls start() once more, on an application that is started.
startOver ==
    /\ pc = "idle"
    /\ started >= 1
    /\ started < MaxStarts + MaxRestarts
    /\ \E now \in Instants :
          SetFrame(Application_start([Frame EXCEPT !.fuse = 0], now))
    /\ UNCHANGED notFrame

\* The host delivers an animation frame: the callback tick.bind(this) runs.
animationFrameAt(T, throws) ==
    /\ pc = "idle"
    /\ frames > 0
    /\ ticks < MaxTicks
    /\ \E now \in T :
         LET f0 == [Frame EXCEPT !.frames = @ - 1]
         IN  \E fuse \in 0..(IF throws THEN Len(tick(f0, now).calls) - 1 ELSE 0) :
                SetFrame(tick([f0 EXCEPT !.fuse = fuse], now))
    /\ UNCHANGED notFrame

animationFrame ==
    animationFrameAt(Refreshes, TRUE)

\* An animation frame in a host where no call throws.
animationFrameClock ==
    animationFrameAt(Instants, FALSE)

\* The host assigns timeScale.
setTimeScale ==
    /\ pc = "idle"
    /\ \E scale \in TimeScales :
          /\ scale # timeScale
          /\ timeScale' = scale
    /\ UNCHANGED <<preloadVars, configVars, viewVars, tocVars, hostVars, clock, _time,
                   root, sceneRoot, cameras, devices, frames, started, ticks, errors,
                   calls, thrown, _currentApplication>>

----------------------------------------------------------------------------

\* loadFromToc(name, success, error, progress).

\* load(): the load of the bundle's asset set starts.
load(t) ==
    [t EXCEPT !.loads = @ + 1]

\* The listener loadFromToc() registers on "librariesloaded": it runs load()
\* for each request that waits.  Nothing in the application fires that event.
librariesloaded(t) ==
    [t EXCEPT !.loads = @ + t.listeners]

\* loadFromToc().  Without this.content the call throws before it registers or
\* loads anything.
Application_loadFromToc(t) ==
    IF ~content THEN [t EXCEPT !.thrown = @ + 1]
    ELSE IF ~_librariesLoaded THEN [t EXCEPT !.listeners = @ + 1]
    ELSE load(t)

\* The host calls loadFromToc().
loadFromToc ==
    /\ pc = "idle"
    /\ toc.listeners + toc.loads + toc.thrown < MaxToc
    /\ toc' = Application_loadFromToc(toc)
    /\ UNCHANGED <<preloadVars, configVars, viewVars, frameVars, hostVars, content>>

----------------------------------------------------------------------------
\* Visibility: isHidden() and onVisibilityChange().

\* isHidden(): document[this._hiddenAttr], undefined on a host without the
\* attribute.
isHidden ==
    IF _hiddenAttr = "none" THEN FALSE ELSE hidden

\* this._audioManager.suspend() and resume().
AudioManager_suspend(a) ==
    [a EXCEPT !.suspended = TRUE, !.suspend = @ + 1]

AudioManager_resume(a) ==
    [a EXCEPT !.suspended = FALSE, !.resume = @ + 1]

\* onVisibilityChange() with the two branches exchanged.
onVisibilityChange_inverted(a) ==
    IF isHidden THEN AudioManager_resume(a) ELSE AudioManager_suspend(a)

\* onVisibilityChange(e).
onVisibilityChange(a) ==
    IF isHidden THEN AudioManager_suspend(a) ELSE AudioManager_resume(a)

\* What the visibility steps leave alone.
notVisibility == <<preloadVars, configVars, viewVars, frameVars, tocVars, _hiddenAttr,
                   fsCalls, fsListeners, fsRequests, resized, sky, sceneLoads,
    _applications, constructed>>

\* The host hides or shows the page and queues the event for the listener the
\* constructor registered, if it registered one.
visibilityChanged ==
    /\ visibility.changes < MaxVisibility
    /\ hidden' = ~hidden
    /\ visibility' = [visibility EXCEPT !.changes = @ + 1,
                                        !.pending = IF _hiddenAttr = "none" THEN @
                                                    ELSE @ + 1]
    /\ UNCHANGED audio
    /\ UNCHANGED notVisibility

\* The host dispatches a visibility event: the listener runs.
visibilityEvent ==
    /\ pc = "idle"
    /\ visibility.pending > 0
    /\ visibility' = [visibility EXCEPT !.pending = @ - 1, !.handled = @ + 1]
    /\ audio' = onVisibilityChange(audio)
    /\ UNCHANGED hidden
    /\ UNCHANGED notVisibility

----------------------------------------------------------------------------
\* The application's calls of the canvas operations, and the window resized
\* by the host.

\* The sizes a caller passes, or leaves out.
Arguments ==
    Sizes \cup {Undefined}

ResolutionModes ==
    {RESOLUTION_AUTO, RESOLUTION_FIXED}

FillModes ==
    {FILLMODE_NONE, FILLMODE_FILL_WINDOW, FILLMODE_KEEP_ASPECT}

\* window.devicePixelRatio of the hosts.
PixelRatios ==
    {1, 2}

notCanvas == <<preloadVars, configVars, frameVars, tocVars, _width, _height, window,
               isCocoonJS, hidden, _hiddenAttr, visibility, audio, fsCalls, fsListeners,
               fsRequests, sky, sceneLoads,
    _applications, constructed>>

\* Both sizes are passed or none, and none in a mode that does not use them.
Passed(mode, width, height) ==
    /\ (width = Undefined) = (height = Undefined)
    /\ mode # FILLMODE_NONE => width = Undefined

\* app.resizeCanvas(width, height)
callResizeCanvas ==
    /\ pc = "idle"
    /\ resized.calls < MaxResize
    /\ \E width, height \in Arguments :
          LET res == resizeCanvas(View, width, height)
          IN  /\ Passed(_fillMode, width, height)
              /\ SetView(res.view)
              /\ resized' = [calls |-> resized.calls + 1, op |-> "resizeCanvas",
                             width |-> res.width, height |-> res.height]
    /\ UNCHANGED notCanvas

\* app.setCanvasFillMode(mode, width, height): the sizes are used in the mode
\* NONE only.
callSetCanvasFillMode ==
    /\ pc = "idle"
    /\ resized.calls < MaxResize
    /\ \E mode \in FillModes, width, height \in Arguments :
          /\ Passed(mode, width, height)
          /\ SetView(setCanvasFillMode(View, mode, width, height))
          /\ resized' = [calls |-> resized.calls + 1, op |-> "setCanvasFillMode",
                         width |-> width, height |-> height]
    /\ UNCHANGED notCanvas

\* app.setCanvasResolution(mode, width, height): both sizes, or in AUTO mode
\* none.
callSetCanvasResolution ==
    /\ pc = "idle"
    /\ resized.calls < MaxResize
    /\ \E mode \in ResolutionModes, width, height \in Arguments :
          /\ (width = Undefined) = (height = Undefined)
          /\ width = Undefined => mode = RESOLUTION_AUTO
          /\ SetView(setCanvasResolution(View, mode, width, height))
          /\ resized' = [calls |-> resized.calls + 1, op |-> "setCanvasResolution",
                         width |-> width, height |-> height]
    /\ UNCHANGED notCanvas

\* The host gives the window another size or another pixel ratio.
windowResized ==
    /\ pc = "idle"
    /\ \E w, h \in 1..MaxSize, ratio \in PixelRatios :
          window' = [innerWidth |-> w, innerHeight |-> h, devicePixelRatio |-> ratio]
    /\ window' # window
    /\ UNCHANGED <<preloadVars, configVars, frameVars, tocVars, hostVars, _fillMode,
                   _resolutionMode, _width, _height, canvas, isCocoonJS>>

----------------------------------------------------------------------------
\* Fullscreen.  A call is [kind, success, error, succeeded, failed, answered]:
\* which of the two callbacks it was given, how often each was invoked, and
\* whether the host has answered its request.

\* The part of the state the fullscreen operations write.
Fullscreen ==
    [calls |-> fsCalls, listeners |-> fsListeners, requests |-> fsRequests]

\* document.addEventListener(type, listener) for the listener `which` ("s" on
\* 'fullscreenchange', "e" on 'fullscreenerror') of call k, if its callback
\* was given.
addEventListener(fs, given, k, which) ==
    IF given THEN [fs EXCEPT !.listeners = @ \cup {<<k, which>>}] ELSE fs

\* enableFullscreen(element, success, error)
enableFullscreen(fs, success, error) ==
    LET k == Len(fs.calls) + 1
        fs1 == [fs EXCEPT !.calls = Append(@, [kind |-> "enable", success |-> success,
                                               error |-> error, succeeded |-> 0,
                                               failed |-> 0, answered |-> FALSE])]
        fs2 == addEventListener(fs1, success, k, "s")
        fs3 == addEventListener(fs2, error, k, "e")
    IN  [fs3 EXCEPT !.requests = Append(@, k)]

\* disableFullscreen(success)
disableFullscreen(fs, success) ==
    LET k == Len(fs.calls) + 1
        fs1 == [fs EXCEPT !.calls = Append(@, [kind |-> "disable", success |-> success,
                                               error |-> FALSE, succeeded |-> 0,
                                               failed |-> 0, answered |-> FALSE])]
        fs2 == addEventListener(fs1, success, k, "s")
    IN  [fs2 EXCEPT !.requests = Append(@, k)]

\* The document dispatches 'fullscreenchange' (which = "s") or 'fullscreenerror'
\* (which = "e"): every listener on it invokes the callback of its call and
\* removes itself.
dispatchEvent(fs, which) ==
    LET heard(k) == <<k, which>> \in fs.listeners
    IN  [fs EXCEPT !.calls = [k \in DOMAIN @ |->
                                 IF ~heard(k) THEN @[k]
                                 ELSE IF which = "s"
                                      THEN [@[k] EXCEPT !.succeeded = @ + 1]
                                      ELSE [@[k] EXCEPT !.failed = @ + 1]],
                  !.listeners = {l \in @ : l[2] # which}]

\* The host answers the oldest request with the event `which`.
answerRequest(fs, which) ==
    LET k == Head(fs.requests)
    IN  dispatchEvent([fs EXCEPT !.requests = Tail(@), !.calls[k].answered = TRUE],
                      which)

SetFullscreen(fs) ==
    /\ fsCalls' = fs.calls
    /\ fsListeners' = fs.listeners
    /\ fsRequests' = fs.requests

notFullscreen == <<preloadVars, configVars, viewVars, frameVars, tocVars, hidden,
                   _hiddenAttr, visibility, audio, resized, sky, sceneLoads,
    _applications, constructed>>

\* app.enableFullscreen(element, success, error), each callback given or not.
callEnableFullscreen ==
    /\ pc = "idle"
    /\ Len(fsCalls) < MaxFullscreen
    /\ \E success, error \in BOOLEAN :
          SetFullscreen(enableFullscreen(Fullscreen, success, error))
    /\ UNCHANGED notFullscreen

\* app.disableFullscreen(success), the callback given or not.
callDisableFullscreen ==
    /\ pc = "idle"
    /\ Len(fsCalls) < MaxFullscreen
    /\ \E success \in BOOLEAN : SetFullscreen(disableFullscreen(Fullscreen, success))
    /\ UNCHANGED notFullscreen

\* The host grants the oldest request, or has left fullscreen.
fullscreenchange ==
    /\ pc = "idle"
    /\ fsRequests # <<>>
    /\ SetFullscreen(answerRequest(Fullscreen, "s"))
    /\ UNCHANGED notFullscreen

\* The host refuses the oldest request, one to enter fullscreen.
fullscreenerror ==
    /\ pc = "idle"
    /\ fsRequests # <<>>
    /\ fsCalls[Head(fsRequests)].kind = "enable"
    /\ SetFullscreen(answerRequest(Fullscreen, "e"))
    /\ UNCHANGED notFullscreen

----------------------------------------------------------------------------
\* updateSceneSettings(settings): the skybox.  An asset is named by its
\* position in the registry, 0 names none.  sky.ready holds the callbacks
\* <<call, asset>> passed to asset.ready() that wait for the asset to load,
\* sky.adds the listeners <<call, asset>> on "add:" + asset.

\* scene.attachSkyboxAsset(asset)
attachSkyboxAsset(s, a) ==
    [s EXCEPT !.skybox = a]

\* scene.setSkybox(null)
setSkybox(s) ==
    [s EXCEPT !.skybox = 0]

\* asset.ready(callback) and this.assets.load(asset) for call k: the callback
\* runs at once on an asset that is loaded, when it has loaded otherwise.
Asset_ready(s, k, a, loaded) ==
    IF loaded THEN attachSkyboxAsset(s, a)
    ELSE [s EXCEPT !.ready = @ \cup {<<k, a>>}]

\* The skybox part of updateSceneSettings(settings).
updateSceneSettings(s, skybox) ==
    LET k == Len(s.settings) + 1
        s1 == [s EXCEPT !.settings = Append(@, skybox)]
    IN  IF skybox # 0
        THEN IF skybox \in DOMAIN assets
             THEN Asset_ready(s1, k, skybox, assets[skybox].loaded)
             ELSE [s1 EXCEPT !.adds = @ \cup {<<k, skybox>>}]
        ELSE setSkybox(s1)

\* Asset a has loaded: every callback waiting for it runs.
Asset_loaded(s, a) ==
    LET waiting == {c \in s.ready : c[2] = a}
    IN  IF waiting = {} THEN s
        ELSE attachSkyboxAsset([s EXCEPT !.ready = @ \ waiting], a)

\* Asset a has been added to the registry: every listener on "add:" + a runs.
RECURSIVE Asset_added(_, _, _)
Asset_added(s, a, listeners) ==
    IF listeners = {} THEN s
    ELSE LET l == CHOOSE x \in listeners : \A y \in listeners : x[1] <= y[1]
         IN  Asset_added(Asset_ready([s EXCEPT !.adds = @ \ {l}], l[1], a, FALSE),
                         a, listeners \ {l})

notScene == <<_scripts, preloading, batches, loading, pc, i, dups, events, configVars,
              viewVars, frameVars, tocVars, hidden, _hiddenAttr, visibility, audio,
              fsCalls, fsListeners, fsRequests, resized, sceneLoads,
    _applications, constructed>>

\* app.updateSceneSettings(settings), the settings naming a skybox or none.
callUpdateSceneSettings ==
    /\ pc = "idle"
    /\ Len(sky.settings) < MaxSettings
    /\ \E skybox \in 0..MaxAssets : sky' = updateSceneSettings(sky, skybox)
    /\ UNCHANGED assets
    /\ UNCHANGED notScene

\* The loader reports that a skybox asset has loaded; no preload() call is
\* listening.
skyboxLoaded ==
    /\ pc = "idle"
    /\ batches = <<>>
    /\ \E c \in sky.ready :
          /\ assets' = [assets EXCEPT ![c[2]].loaded = TRUE]
          /\ sky' = Asset_loaded(sky, c[2])
    /\ UNCHANGED notScene

\* The host adds an asset to the registry.
skyboxAdded ==
    /\ pc = "idle"
    /\ Len(assets) < MaxAssets
    /\ assets' = Append(assets, [preload |-> FALSE, loaded |-> FALSE])
    /\ sky' = Asset_added(sky, Len(assets) + 1,
                          {l \in sky.adds : l[2] = Len(assets) + 1})
    /\ UNCHANGED notScene

----------------------------------------------------------------------------
\* loadScene(url, callback).  A call is [answered, called]: the outcome the
\* loader has reported ("none" while it has reported none) and the number of
\* times the callback of the call was invoked.

\* this.loader.load(url, "scene", ...): the load is requested.
loadScene(loads) ==
    Append(loads, [answered |-> "none", called |-> 0])

\* The callback loadScene() passes to the loader, for call k.
onScene(loads, k, err) ==
    LET answered == [loads EXCEPT ![k].answered = IF err = Null THEN "ok" ELSE "err"]
    IN  IF err = Null THEN [answered EXCEPT ![k].called = @ + 1] ELSE answered

notLoadScene == <<preloadVars, configVars, viewVars, frameVars, tocVars, hidden,
                  _hiddenAttr, visibility, audio, fsCalls, fsListeners, fsRequests,
                  resized, sky,
    _applications, constructed>>

\* app.loadScene(url, callback)
callLoadScene ==
    /\ pc = "idle"
    /\ Len(sceneLoads) < MaxScenes
    /\ sceneLoads' = loadScene(sceneLoads)
    /\ UNCHANGED notLoadScene

\* The loader reports the outcome of a scene load.
sceneAnswered ==
    /\ pc = "idle"
    /\ \E k \in DOMAIN sceneLoads : \E failed \in BOOLEAN :
          /\ sceneLoads[k].answered = "none"
          /\ sceneLoads' = onScene(sceneLoads, k,
                                   IF failed THEN <<"scene", k>> ELSE Null)
    /\ UNCHANGED notLoadScene

----------------------------------------------------------------------------
\* The applications of the page.  The application modelled so far is This;
\* the others are known by what they do to what all applications share:
\* Application._applications and Application._currentApplication.

\* The ids the canvases of the page may have; a canvas given no id has "".
CanvasIds ==
    {"", "application-canvas"}

\* Application.getApplication(id); args is <<>> for a call without argument,
\* <<id>> otherwise.  0 stands for undefined.
getApplication(args) ==
    IF args # <<>> /\ args[1] # "" THEN _applications[args[1]]
    ELSE _currentApplication

notApplications == <<preloadVars, configVars, viewVars, tocVars, hidden, _hiddenAttr,
                     visibility, audio, fsCalls, fsListeners, fsRequests, resized, sky,
                     sceneLoads, clock, _time, timeScale, root, sceneRoot, cameras,
                     devices, frames, started, ticks, errors, calls, thrown>>

\* new pc.Application(canvas, options) on a canvas with some id: lines 104-105.
constructApplication ==
    /\ pc = "idle"
    /\ Len(constructed) < MaxApplications
    /\ \E id \in CanvasIds :
          LET this == Len(constructed) + 1
          IN  /\ _applications' = [_applications EXCEPT ![id] = this]
              /\ _currentApplication' = this
              /\ constructed' = Append(constructed, [canvas |-> id, ticks |-> 0])
    /\ UNCHANGED notApplications

\* A tick of another application than This: line 486, the rest of the tick
\* works on that application's own state.
otherTick ==
    /\ pc = "idle"
    /\ \E this \in DOMAIN constructed :
          /\ this # This
          /\ constructed[this].ticks < MaxTicks
          /\ _currentApplication' = this
          /\ constructed' = [constructed EXCEPT ![this].ticks = @ + 1]
    /\ UNCHANGED _applications
    /\ UNCHANGED notApplications

----------------------------------------------------------------------------

\* Specifications.

\* No configuration payload has been received.
NoResponse ==
    [received |-> FALSE]

\* The application as its constructor leaves it, before configure().
InitConfig ==
    /\ _librariesLoaded = FALSE
    /\ http = "none"
    /\ response = NoResponse
    /\ libs = [len |-> 0, count |-> 0, requests |-> {}, failed |-> {}, settled |-> 0]
    /\ configured = <<>>
    /\ parsed = 0
    /\ libraryLoaded = 0

\* The constructor's canvas policy, on a canvas of some size with no style size,
\* in a window MaxSize wide and 1 high.
InitView ==
    /\ _fillMode = FILLMODE_KEEP_ASPECT
    /\ _resolutionMode = RESOLUTION_FIXED
    /\ _width = Undefined
    /\ _height = Undefined
    /\ \E cw \in 1..MaxSize :
          canvas = [width |-> cw, height |-> 1,
                    style |-> [width |-> Undefined, height |-> Undefined]]
    /\ window = [innerWidth |-> MaxSize, innerHeight |-> 1, devicePixelRatio |-> 1]
    /\ isCocoonJS \in BOOLEAN

\* A constructor that requests an animation frame.
InitFrame_armed ==
    /\ clock = 0
    /\ _time = 0
    /\ timeScale = One
    /\ root \in 1..MaxNodes
    /\ sceneRoot \in {0, 1}
    /\ cameras \in 0..MaxCameras
    /\ devices \in DeviceSets
    /\ frames = 1
    /\ started = 0
    /\ ticks = 0
    /\ errors = 0
    /\ calls = <<>>
    /\ thrown = <<>>
    /\ _currentApplication = This

\* The frame clock and the frame loop as the constructor leaves them, in a host
\* that has built a hierarchy and a scene, added cameras and set input devices.
InitFrame ==
    /\ clock = 0
    /\ _time = 0
    /\ timeScale = One
    /\ root \in 1..MaxNodes
    /\ sceneRoot \in {0, 1}
    /\ cameras \in 0..MaxCameras
    /\ devices \in DeviceSets
    /\ frames = 0
    /\ started = 0
    /\ ticks = 0
    /\ errors = 0
    /\ calls = <<>>
    /\ thrown = <<>>
    /\ _currentApplication = This

\* The page, visible or hidden when the application is constructed, on a host
\* with one of the four visibility attributes or with none; the audio manager
\* as constructed; no fullscreen call made.
InitHost ==
    /\ hidden \in BOOLEAN
    /\ _hiddenAttr \in {"hidden", "mozHidden", "msHidden", "webkitHidden", "none"}
    /\ visibility = [changes |-> 0, pending |-> 0, handled |-> 0]
    /\ audio = [suspended |-> FALSE, suspend |-> 0, resume |-> 0]
    /\ fsCalls = <<>>
    /\ fsListeners = {}
    /\ fsRequests = <<>>
    /\ resized = [calls |-> 0, op |-> "none", width |-> Undefined, height |-> Undefined]
    /\ sky = [skybox |-> 0, settings |-> <<>>, ready |-> {}, adds |-> {}]
    /\ sceneLoads = <<>>
    /\ _applications = [id \in CanvasIds |-> IF id = "application-canvas" THEN This ELSE 0]
    /\ constructed = <<[canvas |-> "application-canvas", ticks |-> 0]>>

\* A visible page on a host with the standard visibility attribute.
Visible ==
    /\ hidden = FALSE
    /\ _hiddenAttr = "hidden"

\* No loadFromToc() call made yet; this.content set by the host or not.
InitToc ==
    /\ content \in BOOLEAN
    /\ toc = [listeners |-> 0, loads |-> 0, thrown |-> 0]

\* The hierarchy, the cameras and the devices right after construction: the
\* root alone, no scene, no camera, no device.
BareScene ==
    /\ root = 1
    /\ sceneRoot = 0
    /\ cameras = 0
    /\ devices = {}

\* The same, and no content.
Bare ==
    /\ BareScene
    /\ content = FALSE

\* The application after construction.
InitApplication ==
    /\ assets = <<>>
    /\ _scripts = <<>>
    /\ preloading = FALSE
    /\ batches = <<>>
    /\ loading = {}
    /\ pc = "idle"
    /\ i = 1
    /\ dups = 0
    /\ events = {}
    /\ InitConfig
    /\ InitView
    /\ InitFrame
    /\ InitToc
    /\ Bare
    /\ InitHost
    /\ Visible

\* An application whose registry and script list have been filled: up to
\* MaxAssets assets, each flagged preload or not and resident or not, and up to
\* MaxScripts scripts.  On a desktop host with a canvas MaxSize wide and 1 high.
InitConfigured ==
    /\ \E n \in 0..MaxAssets :
          assets \in [1..n -> [preload : BOOLEAN, loaded : BOOLEAN]]
    /\ \E n \in 0..MaxScripts : _scripts = [k \in 1..n |-> k]
    /\ preloading = FALSE
    /\ batches = <<>>
    /\ loading = {}
    /\ pc = "idle"
    /\ i = 1
    /\ dups = 0
    /\ events = {}
    /\ InitConfig
    /\ InitView
    /\ canvas.width = MaxSize
    /\ ~isCocoonJS
    /\ InitFrame
    /\ InitToc
    /\ Bare
    /\ InitHost
    /\ Visible

NextPreload ==
    \/ preload
    \/ preloadNoAssets
    \/ preloadAsset
    \/ preloadNoScripts
    \/ preloadScript
    \/ assetLoaded
    \/ assetFailed
    \/ scriptAnswered

\* One preload() call, a loader that reports exactly one outcome per item.
SpecPreload ==
    InitConfigured /\ [][NextPreload]_vars

NextPreloadDup ==
    \/ NextPreload
    \/ assetDuplicate
    \/ scriptDuplicate

\* One preload() call, a loader that may report an outcome more than once.
SpecPreloadDup ==
    InitConfigured /\ [][NextPreloadDup]_vars

NextConfigure ==
    \/ configure
    \/ configureError
    \/ configureResponse
    \/ libraryAnswered

\* One configure() call, a loader that reports exactly one outcome per library.
SpecConfigure ==
    InitApplication /\ [][NextConfigure]_vars

\* An application in a host that has built a hierarchy, on a desktop host with a
\* canvas MaxSize wide and 1 high.
InitHosted ==
    /\ assets = <<>>
    /\ _scripts = <<>>
    /\ preloading = FALSE
    /\ batches = <<>>
    /\ loading = {}
    /\ pc = "idle"
    /\ i = 1
    /\ dups = 0
    /\ events = {}
    /\ InitConfig
    /\ InitView
    /\ canvas.width = MaxSize
    /\ ~isCocoonJS
    /\ InitFrame
    /\ InitToc
    /\ InitHost

\* The hosted application, without content.
InitFrameLoop ==
    /\ InitHosted
    /\ content = FALSE
    /\ Visible

\* The hosted application with the root alone, without content.
InitBare ==
    /\ InitHosted
    /\ Bare
    /\ Visible

\* The hosted application with the root alone, with or without content.
InitContent ==
    /\ InitHosted
    /\ BareScene
    /\ Visible

NextFrame ==
    \/ start
    \/ animationFrame

\* The frame loop: start() and the animation frames, any of whose calls may
\* throw, a few display refreshes apart.
SpecFrame ==
    InitFrameLoop /\ [][NextFrame]_vars

\* start() and an animation frame at the first instant, no call throwing.
startPlain ==
    startAt({40}, FALSE)

animationFramePlain ==
    animationFrameAt({40}, FALSE)

NextLifecycle ==
    \/ configure
    \/ configureError
    \/ configureResponsePlain
    \/ libraryAnswered
    \/ NextPreload
    \/ startPlain
    \/ animationFramePlain

\* The whole start-up, the host calling configure(), preload() and start() in
\* any order and at any time, in a bare application.
SpecLifecycle ==
    InitBare /\ [][NextLifecycle]_vars

NextToc ==
    \/ configure
    \/ configureError
    \/ configureResponsePlain
    \/ libraryAnswered
    \/ loadFromToc

\* configure() and loadFromToc() calls in any order, in a bare application whose
\* host has set this.content or not.  The host's event loop delivers every
\* answer that is pending: the response to the configuration request and the
\* outcome of every library load.
SpecToc ==
    /\ InitContent
    /\ [][NextToc]_vars
    /\ WF_vars(configureResponsePlain)
    /\ WF_vars(libraryAnswered)

\* An application with at most one asset, to preload, and at most one script,
\* the root alone, on a page visible or hidden.
InitLoop ==
    /\ \E n \in 0..1 : assets = [k \in 1..n |-> [preload |-> TRUE, loaded |-> FALSE]]
    /\ \E n \in 0..1 : _scripts = [k \in 1..n |-> k]
    /\ preloading = FALSE
    /\ batches = <<>>
    /\ loading = {}
    /\ pc = "idle"
    /\ i = 1
    /\ dups = 0
    /\ events = {}
    /\ InitConfig
    /\ InitView
    /\ canvas.width = MaxSize
    /\ ~isCocoonJS
    /\ InitFrame
    /\ InitToc
    /\ Bare
    /\ InitHost

NextLoop ==
    \/ startPlain
    \/ animationFramePlain
    \/ visibilityChanged
    \/ visibilityEvent
    \/ NextPreload

NextView ==
    \/ callResizeCanvas
    \/ callSetCanvasFillMode
    \/ callSetCanvasResolution
    \/ windowResized

\* The canvas operations called in any order, in any mode, on a window of any
\* size, on a CocoonJS host or another.
SpecView ==
    InitApplication /\ [][NextView]_vars

NextFullscreen ==
    \/ callEnableFullscreen
    \/ callDisableFullscreen
    \/ fullscreenchange
    \/ fullscreenerror

\* Calls to enter and to leave fullscreen in any order, the host answering
\* each request with one event.
SpecFullscreen ==
    InitApplication /\ [][NextFullscreen]_vars

NextPreloadTwice ==
    \/ NextPreload
    \/ preloadAgain

\* preload() called again, while the loads of the call before are outstanding
\* or after they have settled.
SpecPreloadTwice ==
    InitConfigured /\ [][NextPreloadTwice]_vars

NextRestart ==
    \/ startClock
    \/ startOver
    \/ animationFrameClock
    \/ setTimeScale

\* start() called once or more often, the animation frames and the host
\* assigning timeScale, in a bare application where no call throws.
SpecRestart ==
    InitBare /\ [][NextRestart]_vars

NextSkybox ==
    \/ callUpdateSceneSettings
    \/ skyboxLoaded
    \/ skyboxAdded

\* updateSceneSettings() called again and again, the skybox assets loading
\* and being added in any order.
SpecSkybox ==
    InitConfigured /\ [][NextSkybox]_vars

NextScene ==
    \/ callLoadScene
    \/ sceneAnswered

\* loadScene() calls, the loader reporting one outcome for each, in any order.
SpecScene ==
    InitApplication /\ [][NextScene]_vars

NextApplications ==
    \/ constructApplication
    \/ otherTick
    \/ startPlain
    \/ animationFramePlain

\* Several applications on the page, constructed at any time and ticking in
\* alternation.
SpecApplications ==
    InitBare /\ [][NextApplications]_vars

\* The steps of animationFramePlain, told by what they do to the outstanding
\* requests and to the count of ticks: one request is consumed, tick() runs
\* and requests one frame.
frameDelivered ==
    /\ pc = "idle"
    /\ frames > 0
    /\ ticks < MaxTicks
    /\ ticks' = ticks + 1
    /\ frames' = frames

\* The steps of a preload() call that has been entered (preloadNoAssets,
\* preloadAsset, preloadNoScripts, preloadScript), told by what they do to the
\* position of the call: the loop goes on to its next item, or it is over and
\* the call goes on to the scripts or returns.
preloadRuns ==
    /\ pc # "idle"
    /\ \/ pc' = pc /\ i' = i + 1
       \/ pc' = (IF pc = "assets" THEN "scripts" ELSE "idle") /\ i' = 1

\* The running loop among visibility changes and loads.  The host keeps
\* delivering the animation frames that were requested, and a preload() call
\* that has been entered runs to its end before anything else does.
SpecLoop ==
    /\ InitLoop
    /\ [][NextLoop]_vars
    /\ WF_<<ticks, frames>>(frameDelivered)
    /\ WF_<<pc, i>>(preloadRuns)

NextClock ==
    \/ startClock
    \/ animationFrameClock
    \/ setTimeScale

\* The frame clock: start() and animation frames at any instant, stalls and a
\* clock set back included, under any timeScale, in a bare application.
SpecClock ==
    InitBare /\ [][NextClock]_vars

----------------------------------------------------------------------------
\* Properties of preload().

\* The preload() call that made closure b has returned.
Returned(b) ==
    b < Len(batches) \/ pc = "idle"

Closures ==
    {batches[b] : b \in 1..Len(batches)}

\* C1: with one outcome per item, the completion callback of a preload() call
\* is invoked at most once, only when all its items have settled, and it has
\* been invoked once as soon as the call has returned and all items have
\* settled, whatever the order and the outcomes.
C1_CallbackExactlyOnce ==
    \A b \in 1..Len(batches) :
        LET c == batches[b]
        IN  /\ Len(c.called) <= 1
            /\ Len(c.called) = 1 => c.settled = c.total
            /\ (Returned(b) /\ c.settled = c.total) => Len(c.called) = 1

\* A batch of at least three items, some failed and some not, has completed.
C1_Witness ==
    \E c \in Closures :
        /\ c.total >= 3
        /\ c.failed # {}
        /\ Cardinality(c.failed) < c.total
        /\ c.settled = c.total
        /\ Len(c.called) = 1

\* C2: once the completion callback has been invoked, no step (a late or a
\* duplicate loader callback included) invokes it again.
C2_NoSecondCompletion ==
    [][\A b \in 1..Len(batches) :
          Len(batches[b].called) >= 1 => batches'[b].called = batches[b].called]_vars

\* The callback was invoked, and a loader callback delivered after that has
\* counted an item beyond the batch's length.
C2_Witness ==
    \E c \in Closures :
        /\ Len(c.called) = 1
        /\ count(c) > c.total
        /\ c.settled > c.total

\* C3: every settlement delivered to a preload() call has fired one progress
\* notification, and the last one carries count/total as it is after counting.
C3_EverySettlementFiresProgress ==
    \A c \in Closures :
        /\ Len(c.fired) = c.settled
        /\ c.settled > 0 => c.fired[Len(c.fired)] = Quotient(count(c), c.total)

\* C4: when the completion callback has been invoked, a progress notification
\* of value 1 has been fired for the batch.
C4_CompletionAfterFullProgress ==
    \A c \in Closures :
        Len(c.called) >= 1 => \E k \in 1..Len(c.fired) : c.fired[k] = One

\* C5: the counters stay within 0..length and the progress values fired lie in
\* [0, 1] and never decrease (state part).
C5_ProgressInRange ==
    \A c \in Closures :
        /\ c._assets.count \in 0..c._assets.length
        /\ c._scripts.count \in 0..c._scripts.length
        /\ \A k \in 1..Len(c.fired) : Leq(Zero, c.fired[k]) /\ Leq(c.fired[k], One)
        /\ \A k \in 1..(Len(c.fired) - 1) : Leq(c.fired[k], c.fired[k + 1])

\* C5: no step decreases a counter (step part).
C5_CountersGrow ==
    \A b \in 1..Len(batches) :
        /\ batches'[b]._assets.count >= batches[b]._assets.count
        /\ batches'[b]._scripts.count >= batches[b]._scripts.count

\* C5: with one outcome per item, each progress counter only increases and stays
\* within 0..length, and the progress values are non-decreasing within [0, 1].
C5_ProgressMonotone ==
    []C5_ProgressInRange /\ [][C5_CountersGrow]_vars

\* Two progress values have been fired, the second larger than the first, and
\* both counters have moved.
C5_Witness ==
    \E c \in Closures :
        /\ Len(c.fired) >= 2
        /\ c.fired[1] # c.fired[2]
        /\ c._assets.count >= 2
        /\ c._scripts.count >= 1

\* C6 as stated: when items of a batch have failed, the callback is invoked
\* once with an error that refers to a failed item.
C6_FailureReported ==
    \A b \in 1..Len(batches) :
        LET c == batches[b]
        IN  (Returned(b) /\ c.settled = c.total /\ c.failed # {})
                => (Len(c.called) = 1 /\ c.called[1] \in c.failed)

\* C6 amended: when items of a batch have failed, the callback is invoked once
\* and is passed no error.
C6_FailureNotReported ==
    \A b \in 1..Len(batches) :
        LET c == batches[b]
        IN  (Returned(b) /\ c.settled = c.total /\ c.failed # {})
                => c.called = <<Undefined>>

\* Three items, two succeeded and one failed, and the callback was invoked.
C6_Witness ==
    \E c \in Closures :
        /\ c.total = 3
        /\ Cardinality(c.failed) = 1
        /\ c.settled = 3
        /\ Len(c.called) = 1

\* C7: every invocation of the completion callback passes no error value.
C7_CallbackWithoutError ==
    \A c \in Closures :
        \A k \in 1..Len(c.called) : c.called[k] = Undefined

\* An asset and a script of the batch have failed and the callback was invoked.
C7_Witness ==
    \E c \in Closures :
        /\ \E f \in c.failed : f[1] = "asset"
        /\ \E f \in c.failed : f[1] = "script"
        /\ Len(c.called) >= 1

\* C8: an asset found already loaded is counted and fires a progress
\* notification like any other settlement of an asset, and the completion
\* callback is not invoked while an item of the batch is still to be issued.
C8_ResidentCountedNoEarlyCompletion ==
    \A c \in Closures :
        /\ count(c) = c.settled
        /\ Len(c.fired) = c._assets.count
        /\ c._assets.count >= c.resident
        /\ Len(c.called) >= 1 => c.issued = c.total

\* Every asset of the batch was found loaded and counted inside the loop, the
\* scripts are still to be issued, and the callback has not been invoked.
C8_Witness ==
    \E c \in Closures :
        /\ pc = "scripts"
        /\ c.resident >= 1
        /\ c.resident = c._assets.length
        /\ Len(c.fired) = c.resident
        /\ c._scripts.length >= 1
        /\ c.issued < c.total
        /\ Len(c.called) = 0

----------------------------------------------------------------------------
\* Properties of configure().

\* The error arguments configure()'s callback has been called with.
Reported ==
    {configured[k] : k \in 1..Len(configured)}

\* C9: when a declared library has failed to load, configure()'s callback is
\* never called with a null error, and once every library has settled it has
\* been called with the error of a library that failed.
C9_LibraryFailureFailsConfigure ==
    libs.failed # {} =>
        /\ Null \notin Reported
        /\ libs.settled = libs.len =>
               \E k \in libs.failed : <<"library", k>> \in Reported

\* C10: when configure() has reported success and no library has failed,
\* _librariesLoaded is true and "librariesloaded" has been fired.
C10_SuccessMarksLibrariesLoaded ==
    (Null \in Reported /\ libs.failed = {}) =>
        (_librariesLoaded /\ "librariesloaded" \in events)

\* C12: the step that handles a configuration response declaring no library
\* calls configure()'s callback once, with null, and leaves no load outstanding.
C12_NoLibrariesCallbackInHandler ==
    [][(http = "pending" /\ http' = "done" /\ _width' # Undefined /\ libs'.len = 0)
          => (configured' = <<Null>> /\ parsed' = 1 /\ libs'.requests = {})]_vars

\* A response without libraries has been handled and the callback was called.
C12_Witness ==
    /\ http = "done"
    /\ _width # Undefined
    /\ response.application_properties.libraries = 0
    /\ libs.requests = {}
    /\ configured = <<Null>>

----------------------------------------------------------------------------
\* Properties of start() and of the frame loop.

\* The positions of the calls named name in the log of the latest handler.
Positions(name) ==
    {k \in 1..Len(calls) : calls[k][1] = name}

InitPasses ==
    {"initialize", "postInitialize"}

\* The positions of the calls tick() made in the latest handler.
TickPositions ==
    {k \in 1..Len(calls) : calls[k][1] \notin InitPasses}

\* C15: in start(), every node's initialize has run before any node's
\* postInitialize runs, and both passes have covered every node of the
\* hierarchy before tick() makes its first call.
C15_InitializeThenPostInitializeThenTick ==
    /\ \A a \in Positions("initialize") : \A b \in Positions("postInitialize") : a < b
    /\ Positions("postInitialize") # {} =>
           {calls[k][2] : k \in Positions("initialize")} = {Num(n) : n \in 1..root}
    /\ \A a \in Positions("initialize") \cup Positions("postInitialize") :
           \A t \in TickPositions : a < t
    /\ (Positions("initialize") # {} /\ TickPositions # {}) =>
           /\ Cardinality(Positions("initialize")) = root
           /\ {calls[k][2] : k \in Positions("postInitialize")} = {Num(n) : n \in 1..root}
           /\ Cardinality(Positions("postInitialize")) = root

\* start() has run both passes over a hierarchy of three nodes, the root of
\* the scene included, and its tick has rendered.
C15_Witness ==
    /\ started = 1
    /\ root = 3
    /\ Cardinality(Positions("initialize")) = 3
    /\ Cardinality(Positions("postInitialize")) = 3
    /\ Positions("syncHierarchy") # {}
    /\ thrown = <<>>

\* The deltas passed to update(dt) in the log of the latest handler.
Deltas(log) ==
    {log[k][2] : k \in {j \in 1..Len(log) : log[j][1] = "update"}}

\* C16 as stated: the delta passed to update() is never greater than 0.1 s.
C16_DeltaAtMostTenth ==
    \A d \in Deltas(calls) : Leq(d, Quotient(1, 10))

\* C16 amended: in every tick the delta passed to update() is at least 0 and
\* at most 0.1 s times the timeScale in force, hence at most 0.1 s when
\* timeScale is at most 1, whatever time has elapsed.
C16_DeltaAtMostTenthOfScale ==
    [][ticks' > ticks =>
          \A d \in Deltas(calls') :
              /\ Leq(Zero, d)
              /\ Leq(d, Mul(Quotient(1, 10), timeScale))
              /\ Leq(timeScale, One) => Leq(d, Quotient(1, 10))]_vars

\* A tick after a stall of about five seconds, under timeScale 2, has passed
\* 0.2 s to update().
C16_Witness ==
    /\ ticks >= 2
    /\ clock >= 5000
    /\ timeScale = Num(2)
    /\ Quotient(1, 5) \in Deltas(calls)

\* The time elapsed between two clock readings, in ms, clamped to [0, 100].
ClampedElapsed(last, now) ==
    IF now - last < 0 THEN 0
    ELSE IF now - last > 100 THEN 100
    ELSE now - last

\* C17: in every tick the delta passed to update() is the time elapsed since
\* the previous tick read the clock, clamped to [0, 0.1 s] and then multiplied
\* by timeScale (0 in the first tick), and _time becomes the clock reading of
\* this tick.
C17_DeltaIsClampedThenScaled ==
    [][ticks' > ticks =>
          /\ _time' = clock'
          /\ \A d \in Deltas(calls') :
                d = Mul(Quotient(IF ticks = 0 THEN 0 ELSE ClampedElapsed(clock, clock'),
                                 1000),
                        timeScale)]_vars

\* A tick 40 ms after the previous one, under timeScale 3/2, has passed 0.06 s
\* to update().
C17_Witness ==
    /\ ticks >= 2
    /\ timeScale = Quotient(3, 2)
    /\ clock = 80
    /\ Deltas(calls) = {Quotient(3, 50)}

\* The calls tick() made in the latest handler after requesting the next frame.
TickLog ==
    SelectSeq(calls, LAMBDA c : c[1] \notin InitPasses \cup {"requestAnimationFrame"})

\* The phases of one tick in the order of C18, for a scaled delta d.
PhaseOrder(d) ==
    LET polled == SelectSeq(<<"controller", "mouse", "keyboard", "gamepads">>,
                            LAMBDA dev : dev \in devices)
        perCamera == <<"frameBegin", "render", "frameEnd">>
    IN  <<<<"fixedUpdate", Quotient(1, 60)>>, <<"update", d>>, <<"postUpdate", d>>,
          <<"fire update", d>>>>
        \o [k \in 1..Len(polled) |-> <<polled[k], d>>]
        \o <<<<"syncHierarchy", Zero>>>>
        \o [k \in 1..(3 * cameras) |->
               <<perCamera[((k - 1) % 3) + 1], Num(((k - 1) \div 3) + 1)>>]

\* C18: the calls of a tick are, in this order, fixedUpdate(1/60), update(dt),
\* postUpdate(dt), the "update" notification, the updates of the devices that
\* are set, syncHierarchy, then frameBegin, render, frameEnd for each camera in
\* array order; a tick that throws has made a prefix of them.
C18_PhasesInFixedOrder ==
    TickPositions # {} =>
        \E d \in Deltas(calls) \cup {Zero} :
            /\ Len(TickLog) <= Len(PhaseOrder(d))
            /\ TickLog = SubSeq(PhaseOrder(d), 1, Len(TickLog))
            /\ thrown = <<>> => TickLog = PhaseOrder(d)

\* A tick delivered by an animation frame has run every phase, with the four
\* devices and two cameras.
C18_Witness ==
    /\ ticks >= 2
    /\ devices = Devices
    /\ cameras = 2
    /\ thrown = <<>>
    /\ Len(TickLog) = 15
    /\ Positions("initialize") = {}

\* C19 as stated: a tick that has completed made its request for the next
\* frame as its last step.
C19_RearmIsLastStep ==
    (TickPositions # {} /\ thrown = <<>>) =>
        calls[Len(calls)][1] = "requestAnimationFrame"

\* C19 amended: every tick requests the next frame exactly once, as its first
\* step, before any call of its update and render phases.
C19_RearmIsFirstStep ==
    TickPositions # {} =>
        /\ Cardinality(Positions("requestAnimationFrame")) = 1
        /\ \A r \in Positions("requestAnimationFrame") : \A k \in TickPositions : r <= k

\* A tick has requested the next frame and then updated and rendered a camera.
C19_Witness ==
    /\ calls # <<>>
    /\ calls[1][1] = "requestAnimationFrame"
    /\ Positions("update") # {}
    /\ Positions("frameEnd") # {}
    /\ thrown = <<>>
    /\ frames >= 1

\* C20 as stated: after an error raised in update() or render() has left
\* tick(), no further tick runs unless the host calls start() again.
C20_ErrorStopsTicks ==
    [][(thrown # <<>> /\ thrown[1][1] \notin InitPasses /\ started' = started)
          => ticks' = ticks]_vars

\* C20 amended: an error raised in update() or render() leaves tick() at the
\* call that raised it, and the frame requested at the start of that tick is
\* still outstanding, so the next tick runs.
C20_ErrorAbandonsTickOnly ==
    (thrown # <<>> /\ thrown[1][1] \notin InitPasses) =>
        /\ calls[Len(calls)] = thrown[1]
        /\ errors >= 1
        /\ frames >= 1

\* After one start(), a tick has run every phase although an earlier tick
\* threw.
C20_Witness ==
    /\ started = 1
    /\ errors >= 1
    /\ ticks >= 2
    /\ thrown = <<>>
    /\ Positions("syncHierarchy") # {}

----------------------------------------------------------------------------
\* Properties of the start-up as a whole.

\* configure() has reported success and every library has loaded.
LibrariesLoadedSuccessfully ==
    /\ Reported = {Null}
    /\ Len(configured) > 0
    /\ libs.failed = {}
    /\ libs.settled = libs.len

\* C11: a loadFromToc() request that waits for the libraries starts its load
\* once configure() has loaded every library successfully, and a request made
\* after that starts its load within the call.
C11_QueuedRequestProceeds ==
    /\ (toc.listeners > 0 /\ LibrariesLoadedSuccessfully) ~> (toc.loads >= toc.listeners)
    /\ [][(LibrariesLoadedSuccessfully /\ content /\ toc' # toc)
             => toc'.loads = toc.loads + 1]_vars

\* C13: preload() begins a batch only when configure() has reported success,
\* and start() starts the frame loop only when the preload batch has completed.
C13_StagesInSequence ==
    [][/\ Len(batches') > Len(batches) => (Len(configured) > 0 /\ Reported = {Null})
       /\ started' > started =>
              (Len(batches) >= 1 /\ Len(batches[1].called) >= 1)]_vars

\* C14: as long as start() has not been called, whatever configure() and
\* preload() have done, no tick has run, no call of update() or render() has
\* been made and no animation frame has been requested.
C14_NoFrameBeforeStart ==
    started = 0 => (ticks = 0 /\ calls = <<>> /\ frames = 0 /\ clock = 0)

\* configure() has reported success and a preload batch with items has
\* completed, start() has not been called and nothing has been rendered.
C14_Witness ==
    /\ started = 0
    /\ Reported = {Null}
    /\ \E c \in Closures : c.total >= 1 /\ Len(c.called) = 1
    /\ ticks = 0
    /\ Positions("syncHierarchy") = {}

----------------------------------------------------------------------------
\* Properties of the frame loop under timeScale, visibility changes and loads.

\* The steps the update phases of the latest handler received.
UpdateSteps(log) ==
    {log[k][2] : k \in {j \in 1..Len(log) :
                           log[j][1] \in {"fixedUpdate", "update", "postUpdate"}}}

\* C21: in a tick that runs while timeScale is 0, every update phase receives
\* a zero step and render() is invoked once.
C21_PausedWhileTimeScaleZero ==
    [][(ticks' > ticks /\ timeScale = Zero) =>
          /\ UpdateSteps(calls') = {Zero}
          /\ Cardinality({k \in 1..Len(calls') : calls'[k][1] = "syncHierarchy"}) = 1]_vars

\* C22: once the first tick has run, a frame request is outstanding in every
\* state, no visibility step and no step of a load changes it, and every tick
\* is followed by another one.
C22_LoopRunsForever ==
    /\ [](ticks >= 1 => frames >= 1)
    /\ [][(visibility' # visibility \/ batches' # batches \/ loading' # loading)
             => (frames' = frames /\ ticks' = ticks)]_vars
    /\ \A n \in 1..(MaxTicks - 1) : (ticks = n) ~> (ticks > n)

\* A tick has been delivered while the page was hidden and a load was
\* outstanding, and the next frame is requested.
C22_Witness ==
    /\ ticks >= 2
    /\ hidden
    /\ audio.suspended
    /\ loading # {}
    /\ frames >= 1

\* C23: when every visibility event dispatched has been handled, the audio
\* manager is suspended exactly if the page is hidden.
C23_AudioSuspendedIffHidden ==
    (visibility.pending = 0 /\ visibility.handled > 0) => (audio.suspended <=> hidden)

\* The page was hidden, shown and hidden again, and the audio manager is
\* suspended after a resume.
C23_Witness ==
    /\ visibility.handled >= 3
    /\ visibility.pending = 0
    /\ hidden
    /\ audio.suspended
    /\ audio.resume >= 1
    /\ audio.suspend >= 2

\* What a canvas call did to the state: the call counted in resized that was
\* made by this step.
CanvasCall(op) ==
    resized'.calls > resized.calls /\ resized'.op = op

\* C24: in FIXED resolution mode no resizeCanvas and no setCanvasFillMode
\* call, in any fill mode and on any host, changes the backing resolution of
\* the canvas.
C24_FixedBackingUnchanged ==
    [][(_resolutionMode = RESOLUTION_FIXED
            /\ (CanvasCall("resizeCanvas") \/ CanvasCall("setCanvasFillMode")))
          => (canvas'.width = canvas.width /\ canvas'.height = canvas.height)]_vars

C26_KeepAspectPreservesRatio ==
    [][(CanvasCall("resizeCanvas") /\ _fillMode = FILLMODE_KEEP_ASPECT)
          => Times(canvas.height, resized'.width) = Times(canvas.width, resized'.height)]_vars

\* C27: under KEEP_ASPECT the size resizeCanvas returns fits the window: the
\* width is the window's when the backing aspect is wider than the window's
\* and the height is then no more than the window's; otherwise the height is
\* the window's and the width is no more than the window's.
C27_KeepAspectFitsWindow ==
    [][(CanvasCall("resizeCanvas") /\ _fillMode = FILLMODE_KEEP_ASPECT)
          => IF Gt(Quotient(canvas.width, canvas.height),
                   Quotient(window.innerWidth, window.innerHeight))
             THEN /\ resized'.width = Num(window.innerWidth)
                  /\ Leq(resized'.height, Num(window.innerHeight))
             ELSE /\ resized'.height = Num(window.innerHeight)
                  /\ Leq(resized'.width, Num(window.innerWidth))]_vars

\* A KEEP_ASPECT resizeCanvas call on a desktop host has returned the window's
\* width and a height smaller than the window's, no whole number of pixels.
C27_Witness ==
    /\ resized.op = "resizeCanvas"
    /\ _fillMode = FILLMODE_KEEP_ASPECT
    /\ ~isCocoonJS
    /\ resized.width = Num(window.innerWidth)
    /\ IsNum(resized.height)
    /\ resized.height[3] > 1
    /\ Leq(resized.height, Num(window.innerHeight))

\* C28: of the success and the error callback of an enableFullscreen call
\* that was given both, at most one is ever invoked, and at most once, whatever
\* events follow, those of later calls included.
C28_OneCallbackOnce ==
    \A k \in DOMAIN fsCalls :
        (fsCalls[k].kind = "enable" /\ fsCalls[k].success /\ fsCalls[k].error)
            => fsCalls[k].succeeded + fsCalls[k].failed <= 1

\* C29: once the host has answered the request of a call, no listener that
\* call registered remains; with no request outstanding there is no listener.
C29_NoListenerLeak ==
    /\ \A l \in fsListeners : ~fsCalls[l[1]].answered
    /\ fsRequests = <<>> => fsListeners = {}

\* C30: the preloading flag of the script system is true while any preload()
\* call has started and has not invoked its completion callback, and false
\* once every call made has invoked it; for calls that overlap too.
C30_PreloadingWhileOutstanding ==
    /\ (\E b \in DOMAIN batches : batches[b].called = <<>>) => preloading
    /\ (batches # <<>> /\ \A b \in DOMAIN batches : batches[b].called # <<>>)
          => ~preloading

\* C31: a configure() call invokes its callback at most once and parses the
\* script list and the manifest at most once; when the request has failed, or
\* the response has been handled and every declared library has settled, the
\* callback has been invoked exactly once, and the lists have been parsed
\* exactly once if a response was received.
C31_ConfigureCallbackExactlyOnce ==
    /\ Len(configured) <= 1
    /\ parsed <= 1
    /\ (http = "done" /\ libs.settled = libs.len)
          => (Len(configured) = 1 /\ (_width # Undefined => parsed = 1))

\* C32: at most one request for an animation frame is outstanding at any time,
\* whatever calls were made, start() more than once included.
C32_OneRequestOutstanding ==
    frames <= 1

\* C33: once no skybox asset named by an updateSceneSettings call is still
\* awaited, whatever the order in which they loaded, the skybox of the scene is
\* the one the most recent call named, none if it named none.
C33_LatestSkyboxWins ==
    (sky.settings # <<>> /\ sky.ready = {} /\ sky.adds = {})
        => sky.skybox = sky.settings[Len(sky.settings)]

\* C34: the callback of a loadScene() call is not invoked before the loader
\* has reported the outcome of the load, and has been invoked exactly once when
\* the loader has reported it, a failure as well as a success.
C34_LoadSceneCallsBack ==
    \A k \in DOMAIN sceneLoads :
        sceneLoads[k].called = (IF sceneLoads[k].answered = "none" THEN 0 ELSE 1)

\* The application most recently constructed on the canvas with the given id,
\* 0 when none was.
LastConstructedOn(id) ==
    LET on == {this \in DOMAIN constructed : constructed[this].canvas = id}
    IN  IF on = {} THEN 0 ELSE CHOOSE this \in on : \A other \in on : other <= this

\* C35: getApplication() without argument returns the application just
\* constructed right after its construction and the application being ticked
\* after each tick of any application, however the ticks of several
\* applications alternate; getApplication(id) returns the application most
\* recently constructed on the canvas with that id.
C35_RegistryNamesApplications ==
    [][/\ Len(constructed') > Len(constructed)
            => getApplication(<<>>)' = Len(constructed')
       /\ ticks' > ticks => getApplication(<<>>)' = This
       /\ \A this \in DOMAIN constructed :
             constructed'[this].ticks > constructed[this].ticks
                => getApplication(<<>>)' = this
       /\ \A id \in CanvasIds :
             LastConstructedOn(id)' # 0
                => getApplication(<<id>>)' = LastConstructedOn(id)']_vars

====
